---- MODULE Spec2Model ----
(***************************************************************************)
(* Model of scripts/install-cli.py, the komodo CLI installer.              *)
(*                                                                         *)
(* A run of main() is a process p: it resolves the version and the install *)
(* directory from sys.argv and os.environ, then copy_binary() checks and   *)
(* creates the directory, removes a stale binary, picks the asset for the  *)
(* machine, runs `curl ... > bin_path` through os.popen(...).read() and    *)
(* starts `chmod +x bin_path` through os.popen(...) without reading it.    *)
(* Strings are sequences of one-character strings, so that str.count,      *)
(* str.split, str.lower and the f-strings are computed, not assumed.       *)
(* The filesystem is a set of directories, a map from paths to inodes and  *)
(* the inodes' contents and mode, shared by all runs.                      *)
(***************************************************************************)
EXTENDS Integers, Sequences, FiniteSets, TLC

VARIABLES
    argv,      \* argv[p]: sys.argv of run p (argv[p][1] is the script name)
    environ,   \* os.environ, a function whose domain may lack "HOME"
    machine,   \* platform.machine()
    faulty,    \* whether the network and the filesystem may refuse an operation
    dirs,      \* the directories that exist
    names,     \* path -> inode of the regular files that exist
    inodes,    \* inode -> [data, x]: content and executable bit
    pc,        \* pc[p]: the statement run p is at
    version,   \* main's local `version`
    bin_dir,   \* main's local `bin_dir`
    km_bin,    \* copy_binary's local `km_bin`
    stale,     \* stale[p]: what os.path.isfile(bin_path) answered to run p
    err,       \* the uncaught exception that ended run p, or NoErr
    queries,   \* queries[p]: requests run p sent to the latest-release endpoint
    curl,      \* the `curl ... > bin_path` shell of run p
    chmodp,    \* the `chmod +x bin_path` shell of run p
    report     \* what the filesystem held when run p printed "Finished"

vars == <<argv, environ, machine, faulty, dirs, names, inodes, pc, version,
          bin_dir, km_bin, stale, err, queries, curl, chmodp, report>>

(***************************************************************************)
(* Bounds.                                                                 *)
(***************************************************************************)
MaxArgs == 2
FileLen == 3

Procs == {1, 2}

(***************************************************************************)
(* String literals of the source.                                          *)
(***************************************************************************)
VERSION_FLAG == <<"-", "-", "v", "e", "r", "s", "i", "o", "n">>
USER_FLAG == <<"-", "-", "u", "s", "e", "r">>
EQ == "="
USR_LOCAL_BIN == <<"/", "u", "s", "r", "/", "l", "o", "c", "a", "l", "/", "b", "i", "n">>
LOCAL_BIN == <<"/", ".", "l", "o", "c", "a", "l", "/", "b", "i", "n">>
KM == <<"/", "k", "m">>
KM_X86_64 == <<"k", "m", "-", "x", "8", "6", "_", "6", "4">>
KM_AARCH64 == <<"k", "m", "-", "a", "a", "r", "c", "h", "6", "4">>
AARCH64 == <<"a", "a", "r", "c", "h", "6", "4">>
ARM64 == <<"a", "r", "m", "6", "4">>

(***************************************************************************)
(* Inputs: the script name, the tokens argument lists are drawn from, the  *)
(* values of HOME, the machine strings, the tag the endpoint serves.       *)
(***************************************************************************)
SCRIPT == <<"i", "n", "s", "t", "a", "l", "l", "-", "c", "l", "i", ".", "p", "y">>
T_user == USER_FLAG
T_userx == USER_FLAG \o <<"x">>
T_va == VERSION_FLAG \o <<"=", "a">>
T_vb == VERSION_FLAG \o <<"=", "b">>
T_vab == VERSION_FLAG \o <<"=", "a", "=", "b">>
T_vempty == VERSION_FLAG \o <<"=">>
T_v == VERSION_FLAG
T_xvb == <<"x">> \o VERSION_FLAG \o <<"=", "b">>
Tokens == {T_user, T_userx, T_va, T_vb, T_vab, T_vempty, T_v, T_xvb}

ArgLists == UNION {[1..n -> Tokens] : n \in 0..MaxArgs}

HOME_DIR == <<"/", "h">>
Environs == {<<>>, [HOME |-> <<>>], [HOME |-> HOME_DIR]}

Machines ==
    { AARCH64, ARM64,
      <<"A", "A", "R", "C", "H", "6", "4">>,
      <<"A", "r", "m", "6", "4">>,
      <<"x", "8", "6", "_", "6", "4">>,
      <<"a", "m", "d", "6", "4">>,
      <<>>,
      <<"r", "i", "s", "c", "v", "6", "4">>,
      <<"a", "r", "m", "v", "7", "l">> }

LATEST_TAG == <<"v", "9">>

(***************************************************************************)
(* Python's string and list operations.                                    *)
(***************************************************************************)
RECURSIVE CountFrom(_, _, _)
\* str.count(sub) from index i: the non-overlapping occurrences, left to right
CountFrom(s, sub, i) ==
    IF i + Len(sub) - 1 > Len(s) THEN 0
    ELSE IF SubSeq(s, i, i + Len(sub) - 1) = sub
         THEN 1 + CountFrom(s, sub, i + Len(sub))
         ELSE CountFrom(s, sub, i + 1)

StrCount(s, sub) == CountFrom(s, sub, 1)

RECURSIVE Split(_, _)
\* str.split(sep) for a one-character separator: every piece, empty ones included
Split(s, sep) ==
    IF \A i \in 1..Len(s) : s[i] # sep THEN <<s>>
    ELSE LET i == CHOOSE k \in 1..Len(s) :
                      s[k] = sep /\ \A j \in 1..(k - 1) : s[j] # sep
         IN  <<SubSeq(s, 1, i - 1)>> \o Split(SubSeq(s, i + 1, Len(s)), sep)

\* list.count(x)
ListCount(list, x) == Cardinality({i \in 1..Len(list) : list[i] = x})

LowerChar(c) ==
    CASE c = "A" -> "a" [] c = "R" -> "r" [] c = "C" -> "c"
      [] c = "H" -> "h" [] c = "M" -> "m" [] OTHER -> c

LowerUnchanged(s) == s

\* str.lower()
Lower(s) == [i \in 1..Len(s) |-> LowerChar(s[i])]

(***************************************************************************)
(* The resolver: load_version and load_bin_dir as functions of their       *)
(* inputs.                                                                 *)
(***************************************************************************)
RECURSIVE ScanFrom(_, _, _)
\* the for loop of load_version from sys.argv[i] on, `version` being v
ScanFrom(av, i, v) ==
    IF i > Len(av) THEN [exc |-> "none", version |-> v]
    ELSE IF StrCount(av[i], VERSION_FLAG) > 0
         THEN LET parts == Split(av[i], EQ)
              IN  IF Len(parts) < 2
                  THEN [exc |-> "IndexError", version |-> v]
                  ELSE ScanFrom(av, i + 1, parts[2])
         ELSE ScanFrom(av, i + 1, v)

VersionScan(av) == ScanFrom(av, 1, <<>>)

UserInstallBySubstring(av) == \E i \in 1..Len(av) : StrCount(av[i], USER_FLAG) > 0

\* user_install = sys.argv.count("--user") > 0
UserInstall(av) == ListCount(av, USER_FLAG) > 0

\* load_bin_dir: os.environ['HOME'] is read first, whatever the arguments
BinDirOf(av, env) ==
    IF "HOME" \notin DOMAIN env THEN [exc |-> "KeyError", dir |-> <<>>]
    ELSE IF UserInstall(av)
         THEN [exc |-> "none", dir |-> env["HOME"] \o LOCAL_BIN]
         ELSE [exc |-> "none", dir |-> USR_LOCAL_BIN]

\* the asset copy_binary picks for platform.machine() = m
ChooseAsset(m) ==
    LET arch == Lower(m)
    IN  IF arch = AARCH64 \/ arch = ARM64 THEN KM_AARCH64 ELSE KM_X86_64

(***************************************************************************)
(* The filesystem and the release host.                                    *)
(***************************************************************************)
BinPath(d) == d \o KM

CandDirs == <<USR_LOCAL_BIN, HOME_DIR \o LOCAL_BIN, LOCAL_BIN>>

\* inodes 1 and 2 are the files runs 1 and 2 create; the others pre-exist
OldInode(k) == Cardinality(Procs) + k
InodeIds == 1..(Cardinality(Procs) + Len(CandDirs))

OLD == <<"o", "l", "d">>
NoByte == [src |-> <<>>, i |-> 0]
OldData == [i \in 1..(FileLen + 1) |-> [src |-> OLD, i |-> i]]
NoFile == [data |-> <<>>, x |-> FALSE]

\* the size of the asset of release v: releases differ in size
RemoteLen(v) == IF v = <<"a">> THEN 1 ELSE FileLen

\* the bytes served at .../releases/download/{version}/{km_bin}
Remote(v, asset) == [i \in 1..RemoteLen(v) |-> [src |-> v \o <<"/">> \o asset, i |-> i]]

UnlinkNothing(nm, path) == nm

\* the directory entry `path` removed
Unlink(nm, path) == [q \in DOMAIN nm \ {path} |-> nm[q]]

WriteAppending(data, off, b) == Append(data, b)

\* write(2) of byte b at offset off (0-based) of a file holding data
WriteAt(data, off, b) ==
    IF off < Len(data) THEN [data EXCEPT ![off + 1] = b]
    ELSE data \o [i \in 1..(off - Len(data)) |-> NoByte] \o <<b>>

NoErr == [type |-> "none", at |-> "none"]
NoCurl == [st |-> "none", fd |-> 0, off |-> 0, ok |-> FALSE]
NoReport == [dir |-> FALSE, file |-> FALSE, data |-> <<>>, x |-> FALSE]

\* what the environment may answer to an operation
Outcomes(failure) == IF faulty THEN {"ok", failure} ELSE {"ok"}

(***************************************************************************)
(* Initial states.                                                         *)
(***************************************************************************)
AllDirs == {CandDirs[k] : k \in 1..Len(CandDirs)}
OldNames == [path \in {BinPath(d) : d \in AllDirs} |->
                OldInode(CHOOSE k \in 1..Len(CandDirs) : BinPath(CandDirs[k]) = path)]

InitFs ==
    /\ \/ dirs = {} /\ names = <<>>
       \/ dirs = AllDirs /\ names = <<>>
       \/ dirs = AllDirs /\ names = OldNames
    /\ inodes = [n \in InodeIds |->
                    IF n > Cardinality(Procs) THEN [data |-> OldData, x |-> TRUE] ELSE NoFile]

InitLocals ==
    /\ version = [p \in Procs |-> <<>>]
    /\ bin_dir = [p \in Procs |-> <<>>]
    /\ km_bin = [p \in Procs |-> <<>>]
    /\ stale = [p \in Procs |-> FALSE]
    /\ err = [p \in Procs |-> NoErr]
    /\ queries = [p \in Procs |-> 0]
    /\ curl = [p \in Procs |-> NoCurl]
    /\ chmodp = [p \in Procs |-> "none"]
    /\ report = [p \in Procs |-> NoReport]

(***************************************************************************)
(* The statements of main and copy_binary, one action each.  An uncaught   *)
(* exception ends the run: nothing in the script catches anything.         *)
(***************************************************************************)
Raise(p, exc, at) ==
    /\ pc' = [pc EXCEPT ![p] = "error"]
    /\ err' = [err EXCEPT ![p] = [type |-> exc, at |-> at]]

Goto(p, next) ==
    /\ pc' = [pc EXCEPT ![p] = next]
    /\ err' = err

\* version = load_version(), with its call of load_latest_version()
LoadVersion(p) ==
    /\ pc[p] = "load_version"
    /\ LET r == VersionScan(argv[p])
       IN  IF r.exc # "none"
           THEN /\ Raise(p, r.exc, "load_version")
                /\ UNCHANGED <<version, queries>>
           ELSE IF Len(r.version) = 0
           THEN \E answer \in Outcomes("URLError") :
                   /\ queries' = [queries EXCEPT ![p] = @ + 1]
                   /\ IF answer = "ok"
                      THEN /\ version' = [version EXCEPT ![p] = LATEST_TAG]
                           /\ Goto(p, "load_bin_dir")
                      ELSE /\ version' = version
                           /\ Raise(p, answer, "load_version")
           ELSE /\ version' = [version EXCEPT ![p] = r.version]
                /\ queries' = queries
                /\ Goto(p, "load_bin_dir")
    /\ UNCHANGED <<argv, environ, machine, faulty, dirs, names, inodes,
                   bin_dir, km_bin, stale, curl, chmodp, report>>

\* bin_dir = load_bin_dir()
LoadBinDir(p) ==
    /\ pc[p] = "load_bin_dir"
    /\ LET r == BinDirOf(argv[p], environ)
       IN  IF r.exc # "none"
           THEN /\ Raise(p, r.exc, "load_bin_dir")
                /\ bin_dir' = bin_dir
           ELSE /\ bin_dir' = [bin_dir EXCEPT ![p] = r.dir]
                /\ Goto(p, "isdir")
    /\ UNCHANGED <<argv, environ, machine, faulty, dirs, names, inodes,
                   version, km_bin, stale, queries, curl, chmodp, report>>

\* if not os.path.isdir(bin_dir):
CheckDir(p) ==
    /\ pc[p] = "isdir"
    /\ Goto(p, IF bin_dir[p] \in dirs THEN "isfile" ELSE "makedirs")
    /\ UNCHANGED <<argv, environ, machine, faulty, dirs, names, inodes,
                   version, bin_dir, km_bin, stale, queries, curl, chmodp, report>>

\* os.makedirs(bin_dir): exist_ok is False
MakeDirs(p) ==
    /\ pc[p] = "makedirs"
    /\ IF bin_dir[p] \in dirs
       THEN /\ Raise(p, "FileExistsError", "makedirs")
            /\ dirs' = dirs
       ELSE \E answer \in Outcomes("PermissionError") :
               IF answer = "ok"
               THEN /\ dirs' = dirs \cup {bin_dir[p]}
                    /\ Goto(p, "isfile")
               ELSE /\ dirs' = dirs
                    /\ Raise(p, answer, "makedirs")
    /\ UNCHANGED <<argv, environ, machine, faulty, names, inodes,
                   version, bin_dir, km_bin, stale, queries, curl, chmodp, report>>

\* if os.path.isfile(bin_path):
CheckFile(p) ==
    /\ pc[p] = "isfile"
    /\ stale' = [stale EXCEPT ![p] = BinPath(bin_dir[p]) \in DOMAIN names]
    /\ Goto(p, IF stale'[p] THEN "remove" ELSE "machine")
    /\ UNCHANGED <<argv, environ, machine, faulty, dirs, names, inodes,
                   version, bin_dir, km_bin, queries, curl, chmodp, report>>

\* os.remove(bin_path)
Remove(p) ==
    /\ pc[p] = "remove"
    /\ IF BinPath(bin_dir[p]) \notin DOMAIN names
       THEN /\ Raise(p, "FileNotFoundError", "remove")
            /\ names' = names
       ELSE \E answer \in Outcomes("PermissionError") :
               IF answer = "ok"
               THEN /\ names' = Unlink(names, BinPath(bin_dir[p]))
                    /\ Goto(p, "machine")
               ELSE /\ names' = names
                    /\ Raise(p, answer, "remove")
    /\ UNCHANGED <<argv, environ, machine, faulty, dirs, inodes,
                   version, bin_dir, km_bin, stale, queries, curl, chmodp, report>>

\* km_bin from platform.machine()
SelectAsset(p) ==
    /\ pc[p] = "machine"
    /\ km_bin' = [km_bin EXCEPT ![p] = ChooseAsset(machine)]
    /\ Goto(p, "popen_curl")
    /\ UNCHANGED <<argv, environ, machine, faulty, dirs, names, inodes,
                   version, bin_dir, stale, queries, curl, chmodp, report>>

\* os.popen(f'curl -sSL .../{version}/{km_bin} > {bin_path}'): the shell starts
SpawnCurl(p) ==
    /\ pc[p] = "popen_curl"
    /\ curl' = [curl EXCEPT ![p] = [NoCurl EXCEPT !.st = "spawned"]]
    /\ Goto(p, "read")
    /\ UNCHANGED <<argv, environ, machine, faulty, dirs, names, inodes,
                   version, bin_dir, km_bin, stale, queries, chmodp, report>>

\* the shell opens `> bin_path`: O_WRONLY|O_CREAT|O_TRUNC, offset 0
ShellOpen(p) ==
    /\ curl[p].st = "spawned"
    /\ LET path == BinPath(bin_dir[p])
       IN  \E answer \in Outcomes("denied") :
              IF answer # "ok" \/ bin_dir[p] \notin dirs
              THEN /\ curl' = [curl EXCEPT ![p] = [@ EXCEPT !.st = "exited", !.ok = FALSE]]
                   /\ UNCHANGED <<names, inodes>>
              ELSE IF path \in DOMAIN names
              THEN /\ inodes' = [inodes EXCEPT ![names[path]].data = <<>>]
                   /\ names' = names
                   /\ curl' = [curl EXCEPT ![p] = [@ EXCEPT !.st = "open", !.fd = names[path]]]
              ELSE /\ inodes' = [inodes EXCEPT ![p] = NoFile]
                   /\ names' = [q \in DOMAIN names \cup {path} |->
                                   IF q = path THEN p ELSE names[q]]
                   /\ curl' = [curl EXCEPT ![p] = [@ EXCEPT !.st = "open", !.fd = p]]
    /\ UNCHANGED <<argv, environ, machine, faulty, dirs, pc, version, bin_dir,
                   km_bin, stale, err, queries, chmodp, report>>

\* curl writes the next byte of the response at its own file offset
CurlWrite(p) ==
    /\ curl[p].st = "open"
    /\ curl[p].off < RemoteLen(version[p])
    /\ inodes' = [inodes EXCEPT ![curl[p].fd].data =
                     WriteAt(@, curl[p].off, Remote(version[p], km_bin[p])[curl[p].off + 1])]
    /\ curl' = [curl EXCEPT ![p] = [@ EXCEPT !.off = @ + 1]]
    /\ UNCHANGED <<argv, environ, machine, faulty, dirs, names, pc, version,
                   bin_dir, km_bin, stale, err, queries, chmodp, report>>

\* curl exits: with the whole response written, or earlier on a failed transfer
CurlExit(p) ==
    /\ curl[p].st = "open"
    /\ \E answer \in Outcomes("failed") :
          /\ answer = "ok" => curl[p].off = RemoteLen(version[p])
          /\ curl' = [curl EXCEPT ![p] = [@ EXCEPT !.st = "exited", !.ok = (answer = "ok")]]
    /\ UNCHANGED <<argv, environ, machine, faulty, dirs, names, inodes, pc,
                   version, bin_dir, km_bin, stale, err, queries, chmodp, report>>

\* print(os.popen(...).read()): returns at the end of the shell's output,
\* whatever its exit status
ReadCurl(p) ==
    /\ pc[p] = "read"
    /\ curl[p].st = "exited"
    /\ Goto(p, "popen_chmod")
    /\ UNCHANGED <<argv, environ, machine, faulty, dirs, names, inodes,
                   version, bin_dir, km_bin, stale, queries, curl, chmodp, report>>

\* os.popen(f'chmod +x {bin_path}'): started, neither read nor waited for
SpawnChmod(p) ==
    /\ pc[p] = "popen_chmod"
    /\ chmodp' = [chmodp EXCEPT ![p] = "spawned"]
    /\ Goto(p, "finished")
    /\ UNCHANGED <<argv, environ, machine, faulty, dirs, names, inodes,
                   version, bin_dir, km_bin, stale, queries, curl, report>>

\* the chmod process runs: the mode of the file now at bin_path, if there is one
ChmodRun(p) ==
    /\ chmodp[p] = "spawned"
    /\ chmodp' = [chmodp EXCEPT ![p] = "exited"]
    /\ LET path == BinPath(bin_dir[p])
       IN  IF path \in DOMAIN names
           THEN inodes' = [inodes EXCEPT ![names[path]].x = TRUE]
           ELSE inodes' = inodes
    /\ UNCHANGED <<argv, environ, machine, faulty, dirs, names, pc, version,
                   bin_dir, km_bin, stale, err, queries, curl, report>>

\* what is at bin_dir and bin_path
Observe(d) ==
    LET path == BinPath(d)
    IN  IF path \in DOMAIN names
        THEN [dir |-> d \in dirs, file |-> TRUE,
              data |-> inodes[names[path]].data, x |-> inodes[names[path]].x]
        ELSE [NoReport EXCEPT !.dir = d \in dirs]

\* print("Finished komodo-cli setup. Try running 'km --help'.\n")
Finished(p) ==
    /\ pc[p] = "finished"
    /\ report' = [report EXCEPT ![p] = Observe(bin_dir[p])]
    /\ Goto(p, "done")
    /\ UNCHANGED <<argv, environ, machine, faulty, dirs, names, inodes,
                   version, bin_dir, km_bin, stale, queries, curl, chmodp>>

\* the installer is run again once the first run has ended
RunAgain(p) ==
    /\ pc[p] = "idle"
    /\ \A q \in Procs \ {p} : pc[q] \in {"done", "error"}
    /\ Goto(p, "load_version")
    /\ UNCHANGED <<argv, environ, machine, faulty, dirs, names, inodes,
                   version, bin_dir, km_bin, stale, queries, curl, chmodp, report>>

Step(p) ==
    \/ LoadVersion(p) \/ LoadBinDir(p)
    \/ CheckDir(p) \/ MakeDirs(p) \/ CheckFile(p) \/ Remove(p)
    \/ SelectAsset(p)
    \/ SpawnCurl(p) \/ ShellOpen(p) \/ CurlWrite(p) \/ CurlExit(p) \/ ReadCurl(p)
    \/ SpawnChmod(p) \/ ChmodRun(p)
    \/ Finished(p)

(***************************************************************************)
(* Spec: the installer run twice in a row with the same arguments and      *)
(* environment, on every machine, in an environment that may fail.         *)
(***************************************************************************)
RunArgs == {<<SCRIPT>>, <<SCRIPT, T_va>>, <<SCRIPT, T_user, T_vb>>}

Init ==
    /\ \E a \in RunArgs : argv = [p \in Procs |-> a]
    /\ environ = [HOME |-> HOME_DIR]
    /\ machine \in Machines
    /\ faulty \in BOOLEAN
    /\ InitFs
    /\ InitLocals
    /\ pc = [p \in Procs |-> IF p = 1 THEN "load_version" ELSE "idle"]

Next == \E p \in Procs : Step(p) \/ RunAgain(p)

Spec == Init /\ [][Next]_vars

(***************************************************************************)
(* SpecArgs: one run on every argument list and every HOME.                *)
(***************************************************************************)
InitArgs ==
    /\ \E a \in ArgLists : argv = [p \in Procs |-> <<SCRIPT>> \o a]
    /\ environ \in Environs
    /\ machine = AARCH64
    /\ faulty = FALSE
    /\ InitFs
    /\ InitLocals
    /\ pc = [p \in Procs |-> IF p = 1 THEN "load_version" ELSE "idle"]

NextRuns == \E p \in Procs : Step(p)

SpecArgs == InitArgs /\ [][NextRuns]_vars

(***************************************************************************)
(* SpecConc: two runs at once on the same install path.                    *)
(***************************************************************************)
ConcArgs == {<<SCRIPT, T_va>>, <<SCRIPT, T_vb>>}

InitConc ==
    /\ argv \in [Procs -> ConcArgs]
    /\ environ = [HOME |-> HOME_DIR]
    /\ machine = AARCH64
    /\ faulty \in BOOLEAN
    /\ InitFs
    /\ InitLocals
    /\ pc = [p \in Procs |-> "load_version"]

SpecConc == InitConc /\ [][NextRuns]_vars

(***************************************************************************)
(* What the claims speak of.                                               *)
(***************************************************************************)
\* lines 57-58 of main on arguments av and environment env, the endpoint up
Resolve(av, env) ==
    LET v == VersionScan(av)
        d == BinDirOf(av, env)
    IN  IF v.exc # "none" THEN [exc |-> v.exc, version |-> <<>>, dir |-> <<>>]
        ELSE IF d.exc # "none" THEN [exc |-> d.exc, version |-> <<>>, dir |-> <<>>]
        ELSE [exc |-> "none",
              version |-> IF Len(v.version) = 0 THEN LATEST_TAG ELSE v.version,
              dir |-> d.dir]

\* the token is `--version=X`; TagOf is its X
IsVersionToken(t) ==
    /\ Len(t) > Len(VERSION_FLAG)
    /\ SubSeq(t, 1, Len(VERSION_FLAG) + 1) = VERSION_FLAG \o <<EQ>>
TagOf(t) == SubSeq(t, Len(VERSION_FLAG) + 2, Len(t))
IsRecognized(t) == t = USER_FLAG \/ IsVersionToken(t)
\* the arguments: sys.argv without the script name
Args(p) == SubSeq(argv[p], 2, Len(argv[p]))
HasUserToken(p) == \E i \in 1..Len(Args(p)) : Args(p)[i] = USER_FLAG
InsertAt(av, i, t) == SubSeq(av, 1, i) \o <<t>> \o SubSeq(av, i + 1, Len(av))
IsPrefix(a, b) == Len(a) <= Len(b) /\ SubSeq(b, 1, Len(a)) = a

\* load_version has returned or raised; so has load_bin_dir
VersionSettled(p) == pc[p] \notin {"idle", "load_version"}
DirSettled(p) ==
    /\ pc[p] \notin {"idle", "load_version", "load_bin_dir"}
    /\ err[p].at # "load_version"
ResolverSettled(p) == pc[p] \notin {"idle", "load_version", "load_bin_dir"}
AfterAsset(p) == pc[p] \in {"popen_curl", "read", "popen_chmod", "finished", "done"}
\* the run has passed the removal and its shell has not yet opened bin_path
BeforeOpen(p) ==
    \/ pc[p] \in {"machine", "popen_curl"}
    \/ pc[p] = "read" /\ curl[p].st = "spawned"
\* the run and the processes it started have all ended
Ended(p) ==
    /\ pc[p] \in {"done", "error"}
    /\ curl[p].st \in {"none", "exited"}
    /\ chmodp[p] \in {"none", "exited"}
Installed(p) == Remote(version[p], km_bin[p])

\* C1: whenever the argument list holds a token --version=X with X not empty,
\* load_version returns exactly X, whatever else the list holds.
C1_ExplicitVersionReturned ==
    \A p \in Procs :
        VersionSettled(p) =>
            \A i \in 1..Len(Args(p)) :
                (IsVersionToken(Args(p)[i]) /\ Len(TagOf(Args(p)[i])) > 0) =>
                    /\ err[p].at # "load_version"
                    /\ version[p] = TagOf(Args(p)[i])

\* C2: a failed download stops the run: chmod is not started and the run does
\* not reach the print of "Finished".
C2_FailedDownloadStopsRun ==
    \A p \in Procs :
        (curl[p].st = "exited" /\ ~curl[p].ok) =>
            /\ chmodp[p] = "none"
            /\ pc[p] \notin {"finished", "done"}

\* C3: without the token --user, load_bin_dir returns /usr/local/bin and does
\* not fail, HOME set or not.
C3_HomeOnlyForUser ==
    \A p \in Procs :
        (DirSettled(p) /\ ~HasUserToken(p)) =>
            /\ err[p].at # "load_bin_dir"
            /\ bin_dir[p] = USR_LOCAL_BIN

\* C4: two complete runs in a row with the same arguments, in an environment
\* that refuses nothing, each report completion with the directory present
\* and km present, holding the served bytes, and executable.
C4_SameEndState ==
    (~faulty /\ \A p \in Procs : pc[p] = "done") =>
        \A p \in Procs :
            report[p] = [dir |-> TRUE, file |-> TRUE, data |-> Installed(p), x |-> TRUE]

\* C5: a file found at bin_path is gone before the download opens bin_path,
\* and at completion km holds bytes of the new download only.
C5_StaleBinaryReplaced ==
    \A p \in Procs :
        /\ (stale[p] /\ BeforeOpen(p)) => BinPath(bin_dir[p]) \notin DOMAIN names
        /\ (pc[p] = "done" /\ report[p].file) => IsPrefix(report[p].data, Installed(p))

C5_Witness ==
    /\ pc[1] = "done" /\ stale[1] /\ pc[2] = "idle"
    /\ report[1].file /\ report[1].data = Installed(1)

\* C6: a token that is neither --user nor --version=<tag>, added anywhere in
\* the argument list, changes neither the version, nor the install directory,
\* nor whether the resolution raises.
C6_UnrecognizedIgnored ==
    \A p \in Procs :
        ResolverSettled(p) =>
            \A t \in {u \in Tokens : ~IsRecognized(u)} :
                \A i \in 1..Len(argv[p]) :
                    LET r == Resolve(InsertAt(argv[p], i, t), environ)
                    IN  /\ (r.exc = "none") <=> (err[p].at \notin {"load_version", "load_bin_dir"})
                        /\ r.exc = "none" => (r.version = version[p] /\ r.dir = bin_dir[p])

\* C7: with no token --version=... in the argument list, load_version sends
\* exactly one request to the latest-release endpoint and returns its tag_name.
C7_OneQueryForLatest ==
    \A p \in Procs :
        (VersionSettled(p) /\ \A i \in 1..Len(Args(p)) : ~IsVersionToken(Args(p)[i])) =>
            /\ queries[p] = 1
            /\ err[p].at # "load_version"
            /\ version[p] = LATEST_TAG

\* C8: with HOME set, load_bin_dir returns {HOME}/.local/bin when some argument
\* is exactly --user and /usr/local/bin otherwise.
C8_InstallDir ==
    \A p \in Procs :
        "HOME" \in DOMAIN environ =>
            LET expected == IF HasUserToken(p)
                            THEN environ["HOME"] \o LOCAL_BIN
                            ELSE USR_LOCAL_BIN
            IN  /\ BinDirOf(argv[p], environ) = [exc |-> "none", dir |-> expected]
                /\ DirSettled(p) => (err[p].at # "load_bin_dir" /\ bin_dir[p] = expected)

C8_Witness ==
    /\ pc[1] = "done"
    /\ argv[1] = <<SCRIPT, T_userx, T_user>>
    /\ bin_dir[1] = HOME_DIR \o LOCAL_BIN

\* the character c is the letter l in either case
SameLetter(c, l) ==
    \/ c = l
    \/ <<l, c>> \in {<<"a", "A">>, <<"r", "R">>, <<"c", "C">>, <<"h", "H">>, <<"m", "M">>}
SameIgnoringCase(m, w) == Len(m) = Len(w) /\ \A i \in 1..Len(w) : SameLetter(m[i], w[i])

\* C9: km-aarch64 is chosen exactly when the machine string is aarch64 or
\* arm64 in any case, km-x86_64 for every other string, and nothing is raised.
C9_AssetChoice ==
    \A p \in Procs :
        /\ err[p].at # "machine"
        /\ AfterAsset(p) =>
              km_bin[p] = IF SameIgnoringCase(machine, AARCH64) \/ SameIgnoringCase(machine, ARM64)
                          THEN KM_AARCH64
                          ELSE KM_X86_64

C9_Witness ==
    /\ pc[1] = "done"
    /\ machine = <<"A", "A", "R", "C", "H", "6", "4">>
    /\ km_bin[1] = KM_AARCH64

\* C10: two runs at once on one install path, the environment refusing
\* nothing: both complete, and in the end km holds the whole download of one
\* of them.
C10_LastWriterWins ==
    (~faulty /\ \A p \in Procs : Ended(p)) =>
        /\ \A p \in Procs : pc[p] = "done"
        /\ Observe(USR_LOCAL_BIN).file
        /\ \E p \in Procs : Observe(USR_LOCAL_BIN).data = Installed(p)

\* C10 as amended: at least one run completes, a run that aborts does so on
\* the directory the other created or the file the other removed, and in the
\* end km exists and each of its bytes is the byte at that offset of the
\* download of a run that completed, or the zero byte of a hole.
C10_EachByteFromSomeRun ==
    (~faulty /\ \A p \in Procs : Ended(p)) =>
        /\ \E p \in Procs : pc[p] = "done"
        /\ \A p \in Procs :
              pc[p] = "error" =>
                  err[p] \in {[type |-> "FileExistsError", at |-> "makedirs"],
                              [type |-> "FileNotFoundError", at |-> "remove"]}
        /\ Observe(USR_LOCAL_BIN).file
        /\ \A i \in 1..Len(Observe(USR_LOCAL_BIN).data) :
              \/ Observe(USR_LOCAL_BIN).data[i] = NoByte
              \/ \E p \in Procs :
                    /\ pc[p] = "done"
                    /\ i <= Len(Installed(p))
                    /\ Observe(USR_LOCAL_BIN).data[i] = Installed(p)[i]

C10_Witness ==
    /\ ~faulty
    /\ \A p \in Procs : Ended(p) /\ pc[p] = "done"
    /\ \A p \in Procs : Observe(USR_LOCAL_BIN).data # Installed(p)
    /\ \E i \in 1..Len(Observe(USR_LOCAL_BIN).data) : Observe(USR_LOCAL_BIN).data[i] = NoByte

====
